---- MODULE Spec2Model ----
(***************************************************************************)
(* Batch alpha-simulation orchestrator.                                    *)
(*                                                                         *)
(* Spec      BatchProcessor.run driving run_simulations_and_get_hashes     *)
(*           over a list of manifest files, with the checkpoint files,     *)
(*           process interrupts and restarts (batch_processor.py,          *)
(*           batch_runner.py, simulator_wqb.py).                           *)
(* SpecPool  ace_lib.simulate_alpha_list: a ThreadPool of workers running  *)
(*           simulate_single_alpha on the shared SingleSession             *)
(*           (check_session_and_relogin, start_session,                    *)
(*           simulation_progress).                                         *)
(***************************************************************************)
EXTENDS Integers, Sequences, FiniteSets, TLC

(***************************************************************************)
(* Bounds of the model.                                                    *)
(***************************************************************************)
\* requests in one manifest file
MaxReq == 3
\* runs of the batch runner on the same list of files
MaxRuns == 2

\* alphas handed to simulate_alpha_list
NumAlphas == 2
\* nested start_session calls followed after rejected credentials
MaxAuthDepth == 1

\* check_session_and_relogin: seconds below which the session is renewed
LowWaterMark == 2000
\* simulation_progress: failed polls after which polling goes on
MaxPollRetries == 2

\* --concurrent and --alphas-per-slot values tried
ConcurrentCounts == {2}
SlotSizes == {2}

(***************************************************************************)
(* Requests and fingerprints (simulator_wqb.get_alpha_hash).               *)
(* A request is a JSON object: the sequence of its <<key, value>> fields   *)
(* in the order the file gives them; a field whose value is an object is   *)
(* <<key, "obj", fields>>.                                                 *)
(***************************************************************************)
SortedKeys == <<"delay", "region", "regular", "settings", "type">>

KeyRank(k) == CHOOSE i \in 1..Len(SortedKeys) : SortedKeys[i] = k

\* insert one field into a key-sorted field list
InsertField(f, sorted) ==
    LET before == SelectSeq(sorted, LAMBDA g : KeyRank(g[1]) < KeyRank(f[1]))
        after  == SelectSeq(sorted, LAMBDA g : KeyRank(g[1]) > KeyRank(f[1]))
    IN  before \o <<f>> \o after

RECURSIVE CanonicalJson(_)
RECURSIVE CanonicalField(_)
\* mutant: only the keys of the outer object are sorted
CanonicalField_Shallow(f) == f

\* json.dumps(..., sort_keys=True) sorts the keys of every object it writes
CanonicalField(f) ==
    IF Len(f) = 3 THEN <<f[1], f[2], CanonicalJson(f[3])>> ELSE f

\* json.dumps(expression_data, sort_keys=True)
CanonicalJson(req) ==
    IF req = <<>> THEN <<>>
    ELSE InsertField(CanonicalField(req[Len(req)]),
                     CanonicalJson(SubSeq(req, 1, Len(req) - 1)))

\* sha256 of the canonical string: injective on canonical strings
get_alpha_hash(expression_data) == CanonicalJson(expression_data)

Expr(e) == << <<"type", "REGULAR">>, <<"regular", e>> >>
ExprSwapped(e) == << <<"regular", e>>, <<"type", "REGULAR">> >>

\* the requests manifests are made of: two different ones, written with
\* their fields in different orders
ReqUniverse == {ExprSwapped("e1"), Expr("e2")}

RECURSIVE SeqsUpTo(_, _)
SeqsUpTo(S, n) ==
    IF n = 0 THEN {<<>>}
    ELSE LET shorter == SeqsUpTo(S, n - 1)
         IN  shorter \cup {Append(s, x) : s \in {t \in shorter : Len(t) = n - 1}, x \in S}

\* a manifest file: a JSON list of requests, or a file that does not parse
\* to a list
Manifests == SeqsUpTo(ReqUniverse, MaxReq)

VARIABLES
    \* ---- batch runner ----
    file_paths,          \* the manifest files, in order (their content)
    file_kind,           \* what reading each manifest file gives: "list",
                         \* "not_list" (valid JSON of another type),
                         \* "unreadable" (open or json.load raises)
    checkpoint,          \* checkpoint file of each manifest: its lines
    cp_fault,            \* checkpoint file of each manifest: whether reading
                         \* it raises, whether writing to it raises
    concurrent_count,    \* --concurrent
    use_multi_sim,       \* --multi-sim
    alpha_count_per_slot,\* --alphas-per-slot
    run,                 \* number of the current run of the batch runner
    pc,                  \* where the run is
    fi,                  \* index of the file being processed
    completed_hashes,    \* checkpoint set loaded for the current file
    expressions_to_run,  \* pending requests of the current file
    slots,               \* slot k: positions of expressions_to_run in it
    resps,               \* slot k: state of its remote job
    successful_hashes,   \* hashes returned for checkpointing
    successful_pos,      \* positions the hashes were taken from
    appended,            \* number of successful_hashes written so far
    results_summary,     \* summary of the last dispatch
    \* ---- history ----
    stop_file,           \* file whose slots were in flight when the last run
                         \* was interrupted (0: none)
    stop_pending,        \* its pending list
    stop_completed,      \* fingerprints of its slots that were COMPLETE
    \* ---- ace_lib: the pool of simulate_alpha_list ----
    mainpc,              \* simulate_alpha_list: collect, done, aborted
    next_alpha,          \* next element of alpha_list to hand to a worker
    result_list,         \* results the caller has collected
    wpc,                 \* where each worker thread is
    task,                \* the alpha each worker is simulating
    relogin_lock,        \* SingleSession._relogin_lock: its holder, 0 if free
    expiry,              \* seconds the shared session's token has left
    retry_count,         \* simulation_progress: failed polls so far
                         \* (multisimulation_progress keeps no count: history)
    auth_depth,          \* start_session: nesting of the current call
    multi_tasks,         \* the pool is that of simulate_alpha_list_multi: its
                         \* tasks are multi simulations
    \* ---- history ----
    last_check,          \* what check_session_timeout last returned
    last_auth,           \* outcome of the worker's last authentication POST
    attempts,            \* start_session calls of the current renewal
    delays,              \* 100 s waits of the current renewal
    checks,              \* validity checks made for the current alpha
    calls_since_check,   \* remote calls for the alpha since the last check
    last_poll,           \* what the worker's last poll was answered
    job,                 \* each alpha's remote job: "none", "rejected" (the
                         \* submission was answered non-2xx), "polled"
    abort_cause,         \* the result that made the caller raise
    \* ---- one call of a function of the library ----
    call,                \* the arguments of the call
    ret,                 \* what the call returned
    returned,            \* whether it has returned
    \* ---- autosimulator: main and its two threads ----
    main_pc,             \* main: join_sim, join_res, returned
    sim_pc,              \* simulation_worker: where it is
    res_pc,              \* result_worker: where it is
    session_ok,          \* check_session_timeout(session) would not give 0
    alpha_left,          \* len(alpha_list): alphas not sent yet
    sim_locations,       \* simulation_worker: len(locations), keys 1..n
    location_file,       \* the file at location_path: whether it exists,
                         \* whether it holds a whole JSON document, the
                         \* number of locations in it
    res_locations,       \* result_worker: len(locations) it last loaded
    res_i,               \* result_worker: the key its for loop is at
    results              \* result_worker: keys of results

batchVars == <<file_paths, file_kind, checkpoint, cp_fault, concurrent_count, use_multi_sim,
               alpha_count_per_slot, run, pc, fi, completed_hashes,
               expressions_to_run, slots, resps, successful_hashes,
               successful_pos, appended, results_summary,
               stop_file, stop_pending, stop_completed>>

poolVars == <<mainpc, next_alpha, result_list, wpc, task, relogin_lock,
              expiry, retry_count, auth_depth, last_check, last_auth, attempts,
              delays, checks, calls_since_check, abort_cause, multi_tasks,
              last_poll, job>>

callVars == <<call, ret, returned>>

autoVars == <<main_pc, sim_pc, res_pc, session_ok, alpha_left, sim_locations,
              location_file, res_locations, res_i, results>>

vars == <<batchVars, poolVars, callVars, autoVars>>

(***************************************************************************)
(* Pure helpers of the batch runner.                                       *)
(***************************************************************************)
Range(s) == {s[i] : i \in 1..Len(s)}

\* BatchProcessor._load_completed_hashes: the set of the file's lines
LoadCompletedHashes(lines) == Range(lines)

\* a checkpoint file that can be read and written
NoFault == [read |-> FALSE, write |-> FALSE]

\* mutant: what was read before the exception is kept
load_completed_hashes_Partial(lines, fault) == LoadCompletedHashes(lines)

\* BatchProcessor._load_completed_hashes with its except branch: a file
\* that is missing has no lines, a read that raises gives the empty set
load_completed_hashes(lines, fault) ==
    IF fault.read THEN {} ELSE LoadCompletedHashes(lines)

\* mutant: whatever the file holds is taken as the list of requests
IsManifest_Any(kind) == TRUE

\* json.load did not raise and isinstance(all_expressions, list)
IsManifest(kind) == kind = "list"

RECURSIVE FilterPending_Inverted(_, _)
\* mutant: keeps the checkpointed requests instead of the others
FilterPending_Inverted(all_expressions, completed) ==
    IF all_expressions = <<>> THEN <<>>
    ELSE LET rest == FilterPending_Inverted(Tail(all_expressions), completed)
         IN  IF get_alpha_hash(Head(all_expressions)) \in completed
             THEN <<Head(all_expressions)>> \o rest
             ELSE rest

RECURSIVE FilterPending(_, _)
\* [expr for expr in all_expressions if get_alpha_hash(expr) not in completed]
FilterPending(all_expressions, completed) ==
    IF all_expressions = <<>> THEN <<>>
    ELSE LET rest == FilterPending(Tail(all_expressions), completed)
         IN  IF get_alpha_hash(Head(all_expressions)) \notin completed
             THEN <<Head(all_expressions)>> \o rest
             ELSE rest

Min(a, b) == IF a < b THEN a ELSE b

\* wqb.to_multi_alphas: consecutive runs of `multiple` positions, the last
\* one possibly short
ToMultiAlphas(n, multiple) ==
    [k \in 1..((n + multiple - 1) \div multiple) |->
        [j \in 1..(Min(k * multiple, n) - (k - 1) * multiple) |-> (k - 1) * multiple + j]]

\* the slots run_simulations_and_get_hashes hands to concurrent_simulate
MakeSlots(n, multi, per_slot) ==
    IF multi THEN ToMultiAlphas(n, per_slot)
    ELSE [k \in 1..n |-> <<k>>]

\* mutant: start_index = i, the slot size forgotten
OriginalPositionsInSlot_Unscaled(i, n, multi, per_slot) ==
    IF multi
    THEN LET start_index == i
             end_index == start_index + per_slot
         IN  [j \in 1..(Min(end_index, n) - Min(start_index, n)) |-> Min(start_index, n) + j]
    ELSE <<i + 1>>

\* positions of expressions_with_settings[start_index:end_index] for slot i
\* (i counted from 0 as enumerate does)
OriginalPositionsInSlot(i, n, multi, per_slot) ==
    IF multi
    THEN LET start_index == i * per_slot
             end_index == start_index + per_slot
         IN  [j \in 1..(Min(end_index, n) - Min(start_index, n)) |-> Min(start_index, n) + j]
    ELSE <<i + 1>>

RECURSIVE SuccessfulPositions(_, _, _, _, _)
\* the loop over resps: positions whose hash is collected, in order
SuccessfulPositions(i, rs, n, multi, per_slot) ==
    IF i >= Len(rs) THEN <<>>
    ELSE (IF rs[i + 1] = "COMPLETE"
          THEN OriginalPositionsInSlot(i, n, multi, per_slot)
          ELSE <<>>)
         \o SuccessfulPositions(i + 1, rs, n, multi, per_slot)

\* the answers concurrent_simulate returns for a slot.  COMPLETE: the job's
\* document with its alpha id; COMPLETE_children: the document of a
\* completed multi-job, which lists its child jobs and has no alpha id of
\* its own
Terminal == {"COMPLETE", "COMPLETE_children", "ERROR", "rejected", "pollfail"}
Failed == {"ERROR", "rejected", "pollfail"}

\* mutant: the await returns as soon as one slot has its response
AllSlotsDone_Any == \E k \in 1..Len(resps) : resps[k] \in Terminal

\* await wqbs.concurrent_simulate(...) returns: every slot has its response
AllSlotsDone == \A k \in 1..Len(resps) : resps[k] \in Terminal

InFlight == {k \in 1..Len(resps) : resps[k] = "inflight"}

NoSummary == [total_alphas |-> 0, successful_alphas |-> 0, failed_alphas |-> 0,
              total_slots |-> 0, successful_slots |-> 0, failed_slots |-> 0]

\* threads of ThreadPool(limit_of_concurrent_simulations)
Workers == {1, 2}

\* token lifetimes told apart: expired, just below, at and above the mark
ExpiryLevels == {LowWaterMark - 1, LowWaterMark, LowWaterMark + 1}

\* no library function is being called on its own
NoCall ==
    /\ call = <<>>
    /\ ret = <<>>
    /\ returned = FALSE

\* autosimulator.main has not been started
NoFile == [exists |-> FALSE, whole |-> FALSE, n |-> 0]

AutoIdle ==
    /\ main_pc = "idle"
    /\ sim_pc = "idle"
    /\ res_pc = "idle"
    /\ session_ok = TRUE
    /\ alpha_left = 0
    /\ sim_locations = 0
    /\ location_file = NoFile
    /\ res_locations = 0
    /\ res_i = 0
    /\ results = {}

\* the pool before simulate_alpha_list is called
PoolIdle ==
    /\ mainpc = "idle"
    /\ next_alpha = 1
    /\ result_list = <<>>
    /\ wpc = [w \in Workers |-> "idle"]
    /\ task = [w \in Workers |-> 0]
    /\ relogin_lock = 0
    /\ expiry = LowWaterMark
    /\ retry_count = [w \in Workers |-> 0]
    /\ auth_depth = [w \in Workers |-> 0]
    /\ last_check = [w \in Workers |-> LowWaterMark]
    /\ last_auth = [w \in Workers |-> "none"]
    /\ attempts = [w \in Workers |-> 0]
    /\ delays = [w \in Workers |-> 0]
    /\ checks = [w \in Workers |-> 0]
    /\ calls_since_check = [w \in Workers |-> 0]
    /\ abort_cause = "none"
    /\ last_poll = [w \in Workers |-> "none"]
    /\ job = [a \in 1..NumAlphas |-> "none"]
    /\ multi_tasks = FALSE

(***************************************************************************)
(* Init: a list of manifest files, no checkpoint files yet.                *)
(***************************************************************************)
Init ==
    /\ PoolIdle
    /\ AutoIdle
    /\ NoCall
    /\ file_paths \in {<<m>> : m \in Manifests}
    /\ file_kind = [f \in 1..Len(file_paths) |-> "list"]
    /\ checkpoint = [f \in 1..Len(file_paths) |-> <<>>]
    /\ cp_fault = [f \in 1..Len(file_paths) |-> NoFault]
    /\ concurrent_count \in ConcurrentCounts
    /\ use_multi_sim \in BOOLEAN
    /\ alpha_count_per_slot \in SlotSizes
    /\ run = 1
    /\ pc = "file"
    /\ fi = 1
    /\ completed_hashes = {}
    /\ expressions_to_run = <<>>
    /\ slots = <<>>
    /\ resps = <<>>
    /\ successful_hashes = <<>>
    /\ successful_pos = <<>>
    /\ appended = 0
    /\ results_summary = NoSummary
    /\ stop_file = 0
    /\ stop_pending = <<>>
    /\ stop_completed = {}

histUnchanged == UNCHANGED <<stop_file, stop_pending, stop_completed>>
argsUnchanged == UNCHANGED <<file_paths, file_kind, cp_fault, concurrent_count, use_multi_sim, alpha_count_per_slot, poolVars, callVars,
                            autoVars>>

\* the process is gone: its locals are lost
processEnds ==
    /\ fi' = 0
    /\ completed_hashes' = {}
    /\ expressions_to_run' = <<>>
    /\ slots' = <<>>
    /\ resps' = <<>>
    /\ successful_hashes' = <<>>
    /\ successful_pos' = <<>>
    /\ appended' = 0
    /\ results_summary' = NoSummary

\* BatchProcessor.run, top of the loop body up to the dispatch: load the
\* file and its checkpoint, filter, skip the file when nothing is pending
LoadFile ==
    /\ pc = "file"
    /\ fi <= Len(file_paths)
    /\ IF ~IsManifest(file_kind[fi])
       THEN \* continue: the file is skipped before its checkpoint is looked at
            /\ fi' = fi + 1
            /\ pc' = "file"
            /\ slots' = <<>>
            /\ resps' = <<>>
            /\ UNCHANGED <<completed_hashes, expressions_to_run>>
       ELSE LET all_expressions == file_paths[fi]
                completed == load_completed_hashes(checkpoint[fi], cp_fault[fi])
                to_run == FilterPending(all_expressions, completed)
            IN  /\ completed_hashes' = completed
                /\ expressions_to_run' = to_run
                /\ IF to_run = <<>>
                   THEN /\ fi' = fi + 1
                        /\ pc' = "file"
                        /\ slots' = <<>>
                   ELSE /\ fi' = fi
                        /\ pc' = "dispatch"
                        /\ slots' = MakeSlots(Len(to_run), use_multi_sim, alpha_count_per_slot)
                /\ resps' = [k \in 1..Len(slots') |-> "queued"]
    /\ successful_hashes' = <<>>
    /\ successful_pos' = <<>>
    /\ appended' = 0
    /\ UNCHANGED <<checkpoint, run, results_summary>>
    /\ argsUnchanged /\ histUnchanged

\* the loop over the files is over
AllFilesDone ==
    /\ pc = "file"
    /\ fi > Len(file_paths)
    /\ pc' = "finished"
    /\ processEnds
    /\ stop_file' = 0
    /\ stop_pending' = <<>>
    /\ stop_completed' = {}
    /\ UNCHANGED <<checkpoint, run>>
    /\ argsUnchanged

\* concurrent_simulate: the next queued slot is submitted when fewer than
\* concurrent_count slots are in flight; the submit is accepted or rejected
SubmitSlot(k) ==
    /\ pc = "dispatch"
    /\ resps[k] = "queued"
    /\ \A j \in 1..(k - 1) : resps[j] # "queued"
    /\ Cardinality(InFlight) < concurrent_count
    /\ \E r \in {"inflight", "rejected"} : resps' = [resps EXCEPT ![k] = r]
    /\ UNCHANGED <<checkpoint, run, pc, fi, completed_hashes, expressions_to_run, slots,
                   successful_hashes, successful_pos, appended, results_summary>>
    /\ argsUnchanged /\ histUnchanged

\* concurrent_simulate: a slot in flight reaches a terminal state
SlotTerminal(k) ==
    /\ pc = "dispatch"
    /\ resps[k] = "inflight"
    /\ \E r \in {"COMPLETE", "ERROR", "pollfail"}
                  \cup (IF use_multi_sim THEN {"COMPLETE_children"} ELSE {}) :
           resps' = [resps EXCEPT ![k] = r]
    /\ UNCHANGED <<checkpoint, run, pc, fi, completed_hashes, expressions_to_run, slots,
                   successful_hashes, successful_pos, appended, results_summary>>
    /\ argsUnchanged /\ histUnchanged

\* run_simulations_and_get_hashes after the await: the loop over the
\* responses and the summary
AnalyseResponses ==
    /\ pc = "dispatch"
    /\ AllSlotsDone
    /\ LET n == Len(expressions_to_run)
           pos == SuccessfulPositions(0, resps, n, use_multi_sim, alpha_count_per_slot)
           hashes == [j \in 1..Len(pos) |-> get_alpha_hash(expressions_to_run[pos[j]])]
           alpha_ids == {k \in 1..Len(resps) : resps[k] = "COMPLETE"}
           failed_slots == Cardinality({k \in 1..Len(resps) : resps[k] # "COMPLETE"})
       IN  /\ successful_pos' = pos
           /\ successful_hashes' = hashes
           /\ results_summary' = [total_alphas |-> n,
                                  successful_alphas |-> Len(hashes),
                                  failed_alphas |-> n - Len(hashes),
                                  total_slots |-> Len(slots),
                                  successful_slots |-> Cardinality(alpha_ids),
                                  failed_slots |-> failed_slots]
           /\ IF hashes = <<>>
              THEN pc' = "file" /\ fi' = fi + 1
              ELSE pc' = "append" /\ fi' = fi
    /\ appended' = 0
    /\ UNCHANGED <<checkpoint, run, completed_hashes, expressions_to_run, slots, resps>>
    /\ argsUnchanged /\ histUnchanged

\* mutant: the file is opened with 'w'
AppendLine_Truncating(lines, h) == <<h>>

\* open(checkpoint_path, 'a'): what one write adds to the file
AppendLine(lines, h) == Append(lines, h)

\* BatchProcessor._append_hashes_to_checkpoint: one f.write of the loop;
\* after the last one the run goes on to the next file
AppendHash ==
    /\ pc = "append"
    /\ appended < Len(successful_hashes)
    /\ \/ \* the write goes through
          /\ checkpoint' = [checkpoint EXCEPT ![fi] = AppendLine(@, successful_hashes[appended + 1])]
          /\ appended' = appended + 1
          /\ IF appended' = Len(successful_hashes)
             THEN pc' = "file" /\ fi' = fi + 1
             ELSE pc' = "append" /\ fi' = fi
       \/ \* open or write raises: the except branch prints, the loop over
          \* the hashes is left and run goes on with the summary
          /\ cp_fault[fi].write
          /\ pc' = "file"
          /\ fi' = fi + 1
          /\ UNCHANGED <<checkpoint, appended>>
    /\ UNCHANGED <<run, completed_hashes, expressions_to_run, slots, resps,
                   successful_hashes, successful_pos, results_summary>>
    /\ argsUnchanged /\ histUnchanged

\* fingerprints of the members of the slots that are COMPLETE
CompletedFingerprints ==
    {get_alpha_hash(expressions_to_run[p]) :
        p \in UNION {Range(slots[c]) : c \in {k \in 1..Len(slots) : resps[k] = "COMPLETE"}}}

\* KeyboardInterrupt (caught in __main__) or a crash: the process ends
\* where it is; slots in flight are abandoned
Interrupt ==
    /\ pc \in {"file", "dispatch", "append"}
    /\ pc' = "stopped"
    /\ IF pc = "dispatch" /\ InFlight # {}
       THEN /\ stop_file' = fi
            /\ stop_pending' = expressions_to_run
            /\ stop_completed' = CompletedFingerprints
       ELSE /\ stop_file' = 0
            /\ stop_pending' = <<>>
            /\ stop_completed' = {}
    /\ processEnds
    /\ UNCHANGED <<checkpoint, run>>
    /\ argsUnchanged

\* the batch runner is started again on the same list of files
Restart ==
    /\ pc \in {"stopped", "finished"}
    /\ run < MaxRuns
    /\ run' = run + 1
    /\ pc' = "file"
    /\ fi' = 1
    /\ UNCHANGED <<checkpoint, completed_hashes, expressions_to_run, slots, resps,
                   successful_hashes, successful_pos, appended, results_summary>>
    /\ argsUnchanged /\ histUnchanged

Next ==
    \/ LoadFile
    \/ AllFilesDone
    \/ \E k \in 1..Len(resps) : SubmitSlot(k)
    \/ \E k \in 1..Len(resps) : SlotTerminal(k)
    \/ AnalyseResponses
    \/ AppendHash
    \/ Interrupt
    \/ Restart

Spec == Init /\ [][Next]_vars

(***************************************************************************)
(* Claims about the batch runner (Spec).                                   *)
(***************************************************************************)
\* the file the volatile state is about
LastFile == IF pc = "file" THEN fi - 1 ELSE fi

\* the slot a position of expressions_to_run was submitted in
SlotOf(p) == CHOOSE k \in 1..Len(slots) : p \in Range(slots[k])

\* C1: every line the current run has added to a checkpoint file is the
\* fingerprint of a request whose slot is COMPLETE (not queued, in flight,
\* rejected, ERROR or failed while polling), and the file holds nothing else
\* besides what was loaded from it.
C1_AppendOnlyAfterComplete ==
    (pc \in {"file", "dispatch", "append"} /\ LastFile \in 1..Len(file_paths) /\ slots # <<>>) =>
        LET cp == checkpoint[LastFile]
            base == Len(cp) - appended
        IN  /\ base >= 0
            /\ \A i \in 1..base : cp[i] \in completed_hashes
            /\ \A j \in 1..appended :
                 /\ successful_pos[j] \in 1..Len(expressions_to_run)
                 /\ cp[base + j] = get_alpha_hash(expressions_to_run[successful_pos[j]])
                 /\ resps[SlotOf(successful_pos[j])] = "COMPLETE"

\* C1 witness: a fingerprint has been written for a COMPLETE slot while a
\* sibling slot of the same manifest failed
C1_Witness ==
    /\ pc = "append"
    /\ appended > 0
    /\ \E k \in 1..Len(resps) : resps[k] \in Failed

PendingIndices(f) ==
    {i \in 1..Len(file_paths[f]) : \A l \in 1..Len(checkpoint[f]) :
        checkpoint[f][l] # get_alpha_hash(file_paths[f][i])}

\* the j-th smallest element of a set of numbers
NthSmallest(S, j) == CHOOSE x \in S : Cardinality({y \in S : y < x}) = j - 1

\* positions of the slots, in slot order
RECURSIVE Flatten(_)
Flatten(ss) == IF ss = <<>> THEN <<>> ELSE Head(ss) \o Flatten(Tail(ss))

\* C3: what a run dispatches for a manifest is, in manifest order, exactly
\* the requests whose fingerprint is absent from the checkpoint; with the
\* checkpoint covering exactly the first k of N requests these are the
\* requests k+1..N.  A manifest is passed over without a dispatch only
\* when no fingerprint of it is absent.
C3_DispatchIsPendingInOrder ==
    /\ (pc = "dispatch") =>
        LET m == file_paths[fi]
            idx == PendingIndices(fi)
        IN  /\ Len(expressions_to_run) = Cardinality(idx)
            /\ \A j \in 1..Len(expressions_to_run) :
                 expressions_to_run[j] = m[NthSmallest(idx, j)]
            /\ Flatten(slots) = [j \in 1..Len(expressions_to_run) |-> j]
            /\ \A k \in 0..Len(m) :
                 (idx = (k + 1)..Len(m)) => expressions_to_run = SubSeq(m, k + 1, Len(m))
    /\ (pc = "file" /\ fi > 1 /\ slots = <<>>) => PendingIndices(fi - 1) = {}

\* C3 witness: a later run dispatches the rest of a manifest whose first
\* requests are checkpointed
C3_Witness ==
    /\ pc = "dispatch"
    /\ Len(file_paths[fi]) = MaxReq
    /\ \E k \in 1..(MaxReq - 1) : PendingIndices(fi) = (k + 1)..MaxReq

\* C4: no step of any run, interrupted or not, removes a fingerprint from a
\* checkpoint file.
C4_CheckpointOnlyGrows ==
    [][\A f \in 1..Len(file_paths) : Range(checkpoint[f]) \subseteq Range(checkpoint'[f])]_vars

\* C4 witness: a run appends to a checkpoint file that earlier runs filled
C4_Witness ==
    /\ run > 1
    /\ pc = "append"
    /\ appended > 0
    /\ Len(checkpoint[fi]) > appended

\* the responses of the current manifest's dispatch have been analysed
Analysed == slots # <<>> /\ pc \in {"append", "file"}

\* positions submitted in the slots whose response gave an alpha id, in
\* slot order
PositionsOfSuccessfulSlots ==
    Flatten([k \in 1..Len(slots) |-> IF resps[k] = "COMPLETE" THEN slots[k] ELSE <<>>])

\* C26: in multi mode the fingerprints returned for checkpointing are those
\* of the requests that were submitted in the successful slots, slot by
\* slot, a short last slot included; no request of another slot or of a
\* failed slot is among them.
C26_HashesOfTheSlotsMembers ==
    (Analysed /\ use_multi_sim) =>
        /\ successful_pos = PositionsOfSuccessfulSlots
        /\ successful_hashes =
               [j \in 1..Len(successful_pos) |->
                   get_alpha_hash(expressions_to_run[successful_pos[j]])]

\* the short last slot succeeded, the full slot before it failed
C26_Witness ==
    /\ Analysed
    /\ use_multi_sim
    /\ Len(slots) = 2
    /\ Len(slots[1]) = alpha_count_per_slot
    /\ Len(slots[2]) < alpha_count_per_slot
    /\ resps[1] \in Failed
    /\ resps[2] = "COMPLETE"
    /\ successful_pos = slots[2]

\* C27: requests are deduplicated by fingerprint: a run submits a request
\* at most once although the manifest lists it more than once, and no
\* fingerprint is twice in a checkpoint file.
C27_DeduplicatedByFingerprint ==
    /\ \A i, j \in 1..Len(expressions_to_run) :
           i # j => get_alpha_hash(expressions_to_run[i]) # get_alpha_hash(expressions_to_run[j])
    /\ \A f \in 1..Len(checkpoint) :
           \A i, j \in 1..Len(checkpoint[f]) : i # j => checkpoint[f][i] # checkpoint[f][j]

\* C28: the summary of a dispatch is consistent, in single and in multi
\* mode: successes and failures add up to the totals, for requests and for
\* slots; the successful requests are as many as the fingerprints returned;
\* there is one produced alpha id for each successful request
\* (successful_slots is len(alpha_ids)).
C28_SummaryConsistent ==
    Analysed =>
        /\ results_summary.total_alphas = Len(expressions_to_run)
        /\ results_summary.successful_alphas + results_summary.failed_alphas
               = results_summary.total_alphas
        /\ results_summary.successful_slots + results_summary.failed_slots
               = results_summary.total_slots
        /\ results_summary.total_slots = Len(slots)
        /\ results_summary.successful_alphas = Len(successful_hashes)
        /\ results_summary.successful_slots = results_summary.successful_alphas

(***************************************************************************)
(* ace_lib.simulate_alpha_list: a ThreadPool whose threads run             *)
(* simulate_single_alpha on the shared SingleSession.                      *)
(***************************************************************************)
\* the batch runner is not running
BatchIdle ==
    /\ file_paths = <<>>
    /\ file_kind = <<>>
    /\ checkpoint = <<>>
    /\ cp_fault = <<>>
    /\ concurrent_count = 0
    /\ use_multi_sim = FALSE
    /\ alpha_count_per_slot = 0
    /\ run = 0
    /\ pc = "idle"
    /\ fi = 0
    /\ completed_hashes = {}
    /\ expressions_to_run = <<>>
    /\ slots = <<>>
    /\ resps = <<>>
    /\ successful_hashes = <<>>
    /\ successful_pos = <<>>
    /\ appended = 0
    /\ results_summary = NoSummary
    /\ stop_file = 0
    /\ stop_pending = <<>>
    /\ stop_completed = {}

\* simulate_alpha_list is called with a session of any remaining lifetime
InitPool ==
    /\ BatchIdle
    /\ AutoIdle
    /\ NoCall
    /\ mainpc = "collect"
    /\ next_alpha = 1
    /\ result_list = <<>>
    /\ wpc = [w \in Workers |-> "idle"]
    /\ task = [w \in Workers |-> 0]
    /\ relogin_lock = 0
    /\ expiry \in ExpiryLevels
    /\ retry_count = [w \in Workers |-> 0]
    /\ auth_depth = [w \in Workers |-> 0]
    /\ last_check = [w \in Workers |-> LowWaterMark]
    /\ last_auth = [w \in Workers |-> "none"]
    /\ attempts = [w \in Workers |-> 0]
    /\ delays = [w \in Workers |-> 0]
    /\ checks = [w \in Workers |-> 0]
    /\ calls_since_check = [w \in Workers |-> 0]
    /\ abort_cause = "none"
    /\ last_poll = [w \in Workers |-> "none"]
    /\ job = [a \in 1..NumAlphas |-> "none"]
    /\ multi_tasks \in BOOLEAN

\* a token the server hands out on authentication
FreshLevels == {e \in ExpiryLevels : e >= LowWaterMark}

\* mutant: the lock is taken whoever holds it
LockFree_Always == TRUE

\* threading.Lock: free to acquire
LockFree == relogin_lock = 0

\* mutant: the session is never renewed
NeedsRelogin_Never(t) == FALSE

\* mutant: <= for <
NeedsRelogin_Inclusive(t) == t <= LowWaterMark

\* check_session_timeout(s) < 2000
NeedsRelogin(t) == t < LowWaterMark

\* mutant: the except branch starts over
OnAuthException_Again(at) == "sleep"

\* check_session_and_relogin: where an exception of start_session leads,
\* from the first call (inside try) and from the second (in the handler)
OnAuthException(at) == IF at = "login1" THEN "sleep" ELSE "raise_renewal"

\* start_session: rejected credentials end in `return start_session()`,
\* the POST is made again
OnBadCredentials(at) == at

\* simulation_progress: retry_count <= 2 after a failed poll
PollAgain(n) == n <= MaxPollRetries

Saturate(n) == IF n < 2 THEN n + 1 ELSE 2

workerLocals(w) ==
    /\ retry_count' = [retry_count EXCEPT ![w] = 0]
    /\ auth_depth' = [auth_depth EXCEPT ![w] = 0]
    /\ last_check' = [last_check EXCEPT ![w] = LowWaterMark]
    /\ last_auth' = [last_auth EXCEPT ![w] = "none"]
    /\ attempts' = [attempts EXCEPT ![w] = 0]
    /\ delays' = [delays EXCEPT ![w] = 0]
    /\ checks' = [checks EXCEPT ![w] = 0]
    /\ calls_since_check' = [calls_since_check EXCEPT ![w] = 0]
    /\ last_poll' = [last_poll EXCEPT ![w] = "none"]

\* the function returns: pool.imap_unordered hands the result to the loop of
\* simulate_alpha_list, the pool thread is free for the next task
taskEnds(w, result) ==
    /\ result_list' = Append(result_list, <<task[w], result>>)
    /\ mainpc' = IF Len(result_list') = NumAlphas THEN "done" ELSE "collect"
    /\ wpc' = [wpc EXCEPT ![w] = "idle"]
    /\ task' = [task EXCEPT ![w] = 0]
    /\ workerLocals(w)

\* the renewal is over, the function goes on to its requests
renewalEnds(w) ==
    /\ auth_depth' = [auth_depth EXCEPT ![w] = 0]
    /\ last_check' = [last_check EXCEPT ![w] = LowWaterMark]
    /\ last_auth' = [last_auth EXCEPT ![w] = "none"]
    /\ attempts' = [attempts EXCEPT ![w] = 0]
    /\ delays' = [delays EXCEPT ![w] = 0]

\* a pool thread takes the next alpha: simulate_single_alpha begins (the
\* threads are alike: of the idle ones the first is taken)
TakeTask(w) ==
    /\ mainpc = "collect"
    /\ wpc[w] = "idle"
    /\ \A v \in Workers : wpc[v] = "idle" => w <= v
    /\ next_alpha <= NumAlphas
    /\ task' = [task EXCEPT ![w] = next_alpha]
    /\ next_alpha' = next_alpha + 1
    /\ wpc' = [wpc EXCEPT ![w] = "lock"]
    /\ UNCHANGED <<mainpc, result_list, relogin_lock, expiry, retry_count,
                   auth_depth, last_check, last_auth, attempts, delays, checks,
                   calls_since_check, abort_cause>>
    /\ UNCHANGED <<batchVars, callVars, autoVars, job, multi_tasks, last_poll>>

\* check_session_and_relogin: with s.get_relogin_lock()
AcquireLock(w) ==
    /\ mainpc = "collect"
    /\ wpc[w] = "lock"
    /\ LockFree
    /\ relogin_lock' = w
    /\ wpc' = [wpc EXCEPT ![w] = "check"]
    /\ UNCHANGED <<mainpc, next_alpha, result_list, task, expiry, retry_count,
                   auth_depth, last_check, last_auth, attempts, delays, checks,
                   calls_since_check, abort_cause>>
    /\ UNCHANGED <<batchVars, callVars, autoVars, job, multi_tasks, last_poll>>

\* check_session_and_relogin: check_session_timeout(s) < 2000, inside the
\* lock; the check returns the token's expiry, or 0 when its request fails
CheckSession(w) ==
    /\ mainpc = "collect"
    /\ wpc[w] = "check"
    /\ \E r \in {expiry, 0} :
         /\ last_check' = [last_check EXCEPT ![w] = r]
         /\ IF NeedsRelogin(r)
            THEN /\ wpc' = [wpc EXCEPT ![w] = "login1"]
                 /\ attempts' = [attempts EXCEPT ![w] = 1]
                 /\ UNCHANGED relogin_lock
            ELSE /\ wpc' = [wpc EXCEPT ![w] = "submit"]
                 /\ relogin_lock' = 0
                 /\ UNCHANGED attempts
    /\ checks' = [checks EXCEPT ![w] = @ + 1]
    /\ calls_since_check' = [calls_since_check EXCEPT ![w] = 0]
    /\ UNCHANGED <<mainpc, next_alpha, result_list, task, expiry, retry_count,
                   auth_depth, last_auth, delays, abort_cause>>
    /\ UNCHANGED <<batchVars, callVars, autoVars, job, multi_tasks, last_poll>>

\* start_session: the POST to /authentication and what follows from its
\* answer; called from the try (login1) or from the handler (login2)
StartSession(w) ==
    /\ mainpc = "collect"
    /\ wpc[w] \in {"login1", "login2"}
    /\ \/ \* 201, or 401 with a biometric challenge the user completes
          /\ \E o \in {"created", "persona"} : last_auth' = [last_auth EXCEPT ![w] = o]
          /\ expiry' \in FreshLevels
          /\ relogin_lock' = 0
          /\ wpc' = [wpc EXCEPT ![w] = "submit"]
          /\ UNCHANGED auth_depth
       \/ \* any other status: the session is returned as it is
          /\ last_auth' = [last_auth EXCEPT ![w] = "other"]
          /\ relogin_lock' = 0
          /\ wpc' = [wpc EXCEPT ![w] = "submit"]
          /\ UNCHANGED <<expiry, auth_depth>>
       \/ \* 401 without a challenge: incorrect email or password
          /\ auth_depth[w] < MaxAuthDepth
          /\ last_auth' = [last_auth EXCEPT ![w] = "badcred"]
          /\ auth_depth' = [auth_depth EXCEPT ![w] = @ + 1]
          /\ LET to == OnBadCredentials(wpc[w])
             IN  /\ wpc' = [wpc EXCEPT ![w] = to]
                 /\ relogin_lock' = IF to \in {"login1", "login2"} THEN relogin_lock ELSE 0
          /\ UNCHANGED expiry
       \/ \* the request raises
          /\ last_auth' = [last_auth EXCEPT ![w] = "exception"]
          /\ LET to == OnAuthException(wpc[w])
             IN  /\ wpc' = [wpc EXCEPT ![w] = to]
                 /\ relogin_lock' = IF to = "sleep" THEN relogin_lock ELSE 0
          /\ UNCHANGED <<expiry, auth_depth>>
    /\ UNCHANGED <<mainpc, next_alpha, result_list, task, retry_count,
                   last_check, attempts, delays, checks, calls_since_check, abort_cause>>
    /\ UNCHANGED <<batchVars, callVars, autoVars, job, multi_tasks, last_poll>>

\* check_session_and_relogin: time.sleep(100) is over, start_session is
\* called once more
Wake(w) ==
    /\ mainpc = "collect"
    /\ wpc[w] = "sleep"
    /\ wpc' = [wpc EXCEPT ![w] = "login2"]
    /\ attempts' = [attempts EXCEPT ![w] = @ + 1]
    /\ delays' = [delays EXCEPT ![w] = @ + 1]
    /\ auth_depth' = [auth_depth EXCEPT ![w] = 0]
    /\ UNCHANGED <<mainpc, next_alpha, result_list, task, relogin_lock, expiry,
                   retry_count, last_check, last_auth, checks, calls_since_check, abort_cause>>
    /\ UNCHANGED <<batchVars, callVars, autoVars, job, multi_tasks, last_poll>>

\* mutant: the status of the submission's answer is not looked at
SubmitAccepted_Any(status) == TRUE

\* not (simulate_response.status_code // 100 != 2)
SubmitAccepted(status) == status = "2xx"

\* start_simulation, and the status check that opens simulation_progress
\* and multisimulation_progress
Submit(w) ==
    /\ mainpc = "collect"
    /\ wpc[w] = "submit"
    /\ \/ \E status \in {"2xx", "non2xx"} :
              /\ job' = [job EXCEPT ![task[w]] = IF status = "2xx" THEN @ ELSE "rejected"]
              /\ IF SubmitAccepted(status)
                 THEN \* polling starts
                      /\ wpc' = [wpc EXCEPT ![w] = "poll"]
                      /\ retry_count' = [retry_count EXCEPT ![w] = 0]
                      /\ calls_since_check' = [calls_since_check EXCEPT ![w] = Saturate(@)]
                      /\ renewalEnds(w)
                      /\ UNCHANGED <<mainpc, result_list, task, checks, last_poll>>
                 ELSE \* {"completed": False}, alpha_id None
                      taskEnds(w, "failed")
       \/ \* the request raises
          /\ wpc' = [wpc EXCEPT ![w] = "raise_call"]
          /\ calls_since_check' = [calls_since_check EXCEPT ![w] = Saturate(@)]
          /\ renewalEnds(w)
          /\ UNCHANGED <<mainpc, result_list, task, retry_count, checks, last_poll, job>>
    /\ UNCHANGED <<next_alpha, relogin_lock, expiry, abort_cause>>
    /\ UNCHANGED <<batchVars, callVars, autoVars, multi_tasks>>

\* the documents a poll is answered with when it carries no Retry-After:
\* status ERROR, no status field, a status but no alpha id (multi: no
\* child, or a child without one), a status and the alpha id(s)
PollDocs == {"status_error", "no_status", "no_alpha", "alpha"}

\* mutant: a document without a status is taken as not failed
MissingStatus_Pending == "PENDING"

\* .get("status", "ERROR")
MissingStatus == "ERROR"

StatusOf(doc) ==
    CASE doc = "status_error" -> "ERROR"
      [] doc = "no_status" -> MissingStatus
      [] OTHER -> "COMPLETE"

\* one pass of the loop: the answer was a, the worker goes on at `to` with n
\* failed polls counted
pollStep(w, to, n, a) ==
    /\ wpc' = [wpc EXCEPT ![w] = to]
    /\ retry_count' = [retry_count EXCEPT ![w] = n]
    /\ last_poll' = [last_poll EXCEPT ![w] = a]
    /\ calls_since_check' = [calls_since_check EXCEPT ![w] = Saturate(@)]
    /\ UNCHANGED <<mainpc, result_list, task, auth_depth, last_check, last_auth,
                   attempts, delays, checks>>

\* simulation_progress, multisimulation_progress: one pass of the polling
\* loop
Poll(w) ==
    /\ mainpc = "collect"
    /\ wpc[w] = "poll"
    /\ \/ \* an answer with Retry-After: sleep, poll again
          pollStep(w, "poll", retry_count[w], "again")
       \/ \* simulation_progress, not 2xx: sleep 30 s, count, poll again
          \* while the count allows
          /\ ~multi_tasks
          /\ PollAgain(retry_count[w] + 1)
          /\ pollStep(w, "poll", retry_count[w] + 1, "non2xx")
       \/ \* simulation_progress, not 2xx once too often: error_flag
          /\ ~multi_tasks
          /\ ~PollAgain(retry_count[w] + 1)
          /\ pollStep(w, "error_flag", retry_count[w] + 1, "non2xx")
       \/ \* multisimulation_progress, not 2xx and no Retry-After: sleep 30 s,
          \* then the answer is read like any other; it has no status
          /\ multi_tasks
          /\ pollStep(w, "error_flag", retry_count[w] + 1, "non2xx")
       \/ \* 2xx without Retry-After: the loop ends on the document
          \E doc \in PollDocs :
              IF StatusOf(doc) = "ERROR"
              THEN pollStep(w, "error_flag", retry_count[w], doc)
              ELSE IF doc = "alpha"
              THEN pollStep(w, "fetch", 0, doc)
              ELSE pollStep(w, "no_alpha", retry_count[w], doc)
       \/ \* the request raises
          pollStep(w, "raise_poll", retry_count[w], "raised")
    /\ UNCHANGED <<next_alpha, relogin_lock, expiry, abort_cause>>
    /\ job' = [job EXCEPT ![task[w]] = "polled"]
    /\ UNCHANGED <<batchVars, callVars, autoVars, multi_tasks>>

\* simulation_progress, multisimulation_progress after the loop: error_flag,
\* or no alpha id: {"completed": False}, the function returns alpha_id None
ReportFailed(w) ==
    /\ mainpc = "collect"
    /\ wpc[w] \in {"error_flag", "no_alpha"}
    /\ taskEnds(w, "failed")
    /\ UNCHANGED <<next_alpha, relogin_lock, expiry, abort_cause>>
    /\ UNCHANGED <<batchVars, callVars, autoVars, job, multi_tasks>>

\* get_simulation_result_json and set_alpha_properties
Fetch(w) ==
    /\ mainpc = "collect"
    /\ wpc[w] = "fetch"
    /\ \/ \* the result is read and the properties are set
          taskEnds(w, "ok")
       \/ \* the result cannot be decoded: {}
          taskEnds(w, "failed")
       \/ \* a request raises
          /\ wpc' = [wpc EXCEPT ![w] = "raise_call"]
          /\ UNCHANGED <<mainpc, result_list, task, retry_count, auth_depth, last_check,
                         last_auth, attempts, delays, checks, calls_since_check,
                         last_poll>>
    /\ UNCHANGED <<next_alpha, relogin_lock, expiry, abort_cause>>
    /\ UNCHANGED <<batchVars, callVars, autoVars, job, multi_tasks>>

\* an exception leaves simulate_single_alpha: pool.imap_unordered raises it
\* again in the loop of simulate_alpha_list, which has no handler; the
\* function ends with it and the pool is terminated
WorkerRaises(w) ==
    /\ mainpc = "collect"
    /\ wpc[w] \in {"raise_call", "raise_poll", "raise_renewal"}
    /\ mainpc' = "aborted"
    /\ abort_cause' = wpc[w]
    /\ UNCHANGED <<next_alpha, result_list, wpc, task, relogin_lock, expiry, retry_count,
                   auth_depth, last_check, last_auth, attempts, delays, checks,
                   calls_since_check>>
    /\ UNCHANGED <<batchVars, callVars, autoVars, job, multi_tasks, last_poll>>

\* time passes: the token has less left
Tick ==
    /\ mainpc = "collect"
    /\ \E e \in ExpiryLevels : e < expiry /\ expiry' = e
    /\ UNCHANGED <<mainpc, next_alpha, result_list, wpc, task, relogin_lock,
                   retry_count, auth_depth, last_check, last_auth, attempts, delays,
                   checks, calls_since_check, abort_cause>>
    /\ UNCHANGED <<batchVars, callVars, autoVars, job, multi_tasks, last_poll>>

NextPool ==
    \/ \E w \in Workers : TakeTask(w)
    \/ \E w \in Workers : AcquireLock(w)
    \/ \E w \in Workers : CheckSession(w)
    \/ \E w \in Workers : StartSession(w)
    \/ \E w \in Workers : Wake(w)
    \/ \E w \in Workers : Submit(w)
    \/ \E w \in Workers : Poll(w)
    \/ \E w \in Workers : ReportFailed(w)
    \/ \E w \in Workers : Fetch(w)
    \/ \E w \in Workers : WorkerRaises(w)
    \/ Tick

SpecPool == InitPool /\ [][NextPool]_vars

(***************************************************************************)
(* Claims about the pool                                                   *)
(***************************************************************************)
Renewing == {"login1", "sleep", "login2"}

\* C5: a slot that fails (rejected submit, terminal ERROR, failed polls, a
\* request that raises) is reported for that slot only and the other slots go
\* on; the whole list is given up only when a session renewal has failed
\* after its retry.
C5_OnlyRenewalAborts ==
    mainpc = "aborted" => abort_cause = "raise_renewal"

\* C6: at any moment at most one worker is re-authenticating.
C6_OneRenewalAtATime ==
    /\ Cardinality({w \in Workers : wpc[w] \in Renewing \cup {"check"}}) <= 1
    /\ \A w \in Workers : wpc[w] \in Renewing \cup {"check"} => relogin_lock = w

\* a worker is inside start_session while the other one waits for the lock
C6_Witness ==
    \E w, v \in Workers :
        /\ wpc[w] \in {"login1", "login2"}
        /\ wpc[v] = "lock"

\* C7 as stated: a worker whose token is still valid goes on without waiting
\* for a worker that is re-authenticating, so it never finds the lock taken.
C7_ValidTokenNeverWaits ==
    \A w \in Workers :
        (wpc[w] = "lock" /\ expiry >= LowWaterMark) => relogin_lock = 0

\* C7: the validity check is made by the holder of the lock only; a worker
\* that read at least 2000 seconds leaves without authenticating, and only a
\* worker that read less authenticates.
C7_CheckUnderLock ==
    \A w \in Workers :
        /\ wpc[w] = "check" => relogin_lock = w
        /\ wpc[w] \in Renewing => last_check[w] < LowWaterMark
        /\ (wpc[w] = "submit" /\ attempts[w] = 0) =>
               (last_check[w] >= LowWaterMark /\ relogin_lock # w)

\* the token is valid, a worker waits for the lock all the same: the other
\* worker sits in its 100 second delay holding it
C7_Witness ==
    \E w, v \in Workers :
        /\ wpc[w] = "lock"
        /\ expiry >= LowWaterMark
        /\ wpc[v] = "sleep"
        /\ relogin_lock = v

\* C8: a renewal calls start_session once; if that raises it waits once and
\* calls it a second time; if the second call raises too the exception
\* leaves the renewal, otherwise the worker goes on.
C8_OneRetryThenFatal ==
    \A w \in Workers :
        /\ attempts[w] <= 2
        /\ delays[w] <= 1
        /\ wpc[w] = "login1" => (attempts[w] = 1 /\ delays[w] = 0)
        /\ wpc[w] = "sleep" =>
               (attempts[w] = 1 /\ delays[w] = 0 /\ last_auth[w] = "exception")
        /\ wpc[w] = "login2" => (attempts[w] = 2 /\ delays[w] = 1)
        /\ wpc[w] = "raise_renewal" =>
               (attempts[w] = 2 /\ delays[w] = 1 /\ relogin_lock # w)
        /\ (wpc[w] = "submit" /\ attempts[w] = 2) =>
               (last_auth[w] \in {"created", "persona", "other"} /\ relogin_lock # w)

\* both calls have raised: the exception leaves the renewal
C8_Witness ==
    \E w \in Workers :
        /\ wpc[w] = "raise_renewal"
        /\ last_auth[w] = "exception"
        /\ attempts[w] = 2
        /\ delays[w] = 1

\* C9: when the server rejects the credentials (401 without a biometric
\* challenge) the authentication ends with an error and is not attempted
\* again.
C9_BadCredentialsFatal ==
    \A w \in Workers : last_auth[w] = "badcred" => wpc[w] = "raise_renewal"

FailedPolls(w) == retry_count[w] + (IF wpc[w] = "raise_poll" THEN 1 ELSE 0)

\* C19: failed polls (an answer that is not 2xx, a call that raises, a
\* timeout included) are tolerated twice, the polling going on after each;
\* the polling is given up exactly at the third.
C19_ThirdFailureFails ==
    \A w \in Workers :
        /\ wpc[w] = "poll" => FailedPolls(w) <= MaxPollRetries
        /\ (wpc[w] = "raise_poll" \/ (wpc[w] = "error_flag" /\ last_poll[w] = "non2xx"))
               => FailedPolls(w) = MaxPollRetries + 1

\* C24: when the submission of a slot is answered non-2xx the slot is
\* failed at once: no poll is ever made for it, and it is reported without
\* an alpha id (so none of its fingerprints can count as successful).
C24_RejectedNeverPolled ==
    /\ [](\A a \in 1..NumAlphas :
             job[a] = "rejected" =>
                 /\ <<a, "failed">> \in Range(result_list)
                 /\ <<a, "ok">> \notin Range(result_list)
                 /\ \A w \in Workers : task[w] # a)
    /\ [][\A a \in 1..NumAlphas : job[a] = "rejected" => job'[a] = "rejected"]_vars

\* a rejected submission has been reported while the pool goes on: the other
\* worker is polling its own job
C24_Witness ==
    \E a \in 1..NumAlphas, w \in Workers :
        /\ job[a] = "rejected"
        /\ <<a, "failed">> \in Range(result_list)
        /\ wpc[w] = "poll"
        /\ task[w] # a
        /\ job[task[w]] = "polled"

\* another worker has just renewed the session and the token it got is
\* still good for 2000 seconds or more
RenewedByOther(w) ==
    /\ expiry >= LowWaterMark
    /\ \E v \in Workers \ {w} :
           wpc[v] = "submit" /\ last_auth[v] \in {"created", "persona"}

\* C25 as stated: when workers meet at an expired session one of them
\* re-authenticates; each of the others, once it has the lock, checks again
\* and, the renewed session having 2000 seconds or more, goes on without
\* re-authenticating.
C25_OneRenewalPerExpiry ==
    [][\A w \in Workers :
          (wpc[w] = "check" /\ RenewedByOther(w)) => wpc'[w] # "login1"]_vars

\* C25, amended: the worker that gets the lock after a renewal checks the
\* shared session again, inside the lock; if the check reads 2000 seconds
\* or more it goes on without re-authenticating and the session is left
\* as it is, and if the check reads less, which it also does when its own
\* request fails (0), it re-authenticates although the session is valid.
C25_RecheckDecides ==
    [][\A w \in Workers :
          (wpc[w] = "check" /\ wpc'[w] # "check") =>
              /\ relogin_lock = w
              /\ last_check'[w] \in {expiry, 0}
              /\ last_check'[w] >= LowWaterMark =>
                     (wpc'[w] = "submit" /\ attempts'[w] = 0 /\ expiry' = expiry
                      /\ relogin_lock' = 0)
              /\ last_check'[w] < LowWaterMark =>
                     (wpc'[w] = "login1" /\ relogin_lock' = w)]_vars

\* one worker has renewed the session, the other has checked after it and
\* gone on without authenticating
C25_Witness ==
    \E w \in Workers :
        /\ RenewedByOther(w)
        /\ wpc[w] = "submit"
        /\ attempts[w] = 0
        /\ last_auth[w] = "none"
        /\ last_check[w] >= LowWaterMark

(***************************************************************************)
(* simulator_wqb.get_alpha_hash on requests with settings, and the filter  *)
(* of BatchProcessor.run on it.                                            *)
(***************************************************************************)
\* the ways to write down the fields of an object
Orderings(fields) ==
    {o \in [1..Cardinality(fields) -> fields] :
        \A i, j \in 1..Cardinality(fields) : o[i] = o[j] => i = j}

SettingsObjects ==
    UNION {Orderings({<<"region", r>>, <<"delay", "1">>}) : r \in {"USA", "CHN"}}

\* requests as a manifest may hold them: type, expression and settings
NestedRequests ==
    UNION {Orderings({<<"type", "REGULAR">>, <<"regular", e>>, <<"settings", "obj", st>>}) :
               e \in {"e1", "e2"}, st \in SettingsObjects}

InitHash ==
    /\ PoolIdle
    /\ AutoIdle
    /\ BatchIdle
    /\ call \in [checkpointed : NestedRequests, expr : NestedRequests]
    /\ ret = <<>>
    /\ returned = FALSE

\* a run whose checkpoint holds the fingerprint of one request meets a
\* manifest holding another: the filter of BatchProcessor.run
FilterOne ==
    /\ ~returned
    /\ returned' = TRUE
    /\ ret' = [checkpoint_hash |-> get_alpha_hash(call.checkpointed),
               expr_hash |-> get_alpha_hash(call.expr),
               expressions_to_run |->
                   FilterPending(<<call.expr>>, {get_alpha_hash(call.checkpointed)})]
    /\ UNCHANGED <<call, batchVars, poolVars, autoVars>>

NextHash == FilterOne

SpecHash == InitHash /\ [][NextHash]_vars

RECURSIVE FieldSet(_)
\* what a request says, whatever the order it says it in
FieldSet(req) ==
    {IF Len(req[i]) = 3 THEN <<req[i][1], req[i][2], FieldSet(req[i][3])>> ELSE req[i] :
        i \in 1..Len(req)}

\* C11: two requests with the same keys and values at every level, written
\* in different orders, have the same fingerprint, so with one of them in
\* the checkpoint the other is filtered out of the pending list.
C11_FieldOrderIndependent ==
    (returned /\ FieldSet(call.checkpointed) = FieldSet(call.expr)) =>
        /\ ret.checkpoint_hash = ret.expr_hash
        /\ ret.expressions_to_run = <<>>

\* the request reappears with its fields and those of its settings in
\* another order, and is filtered out
C11_Witness ==
    /\ returned
    /\ FieldSet(call.checkpointed) = FieldSet(call.expr)
    /\ call.checkpointed[1] # call.expr[1]
    /\ \E i, j \in 1..3 :
          /\ Len(call.checkpointed[i]) = 3
          /\ Len(call.expr[j]) = 3
          /\ call.checkpointed[i][3] # call.expr[j][3]
    /\ ret.expressions_to_run = <<>>


(***************************************************************************)
(* How a list of alphas is cut into tasks and how many run at a time:      *)
(* ace_lib.simulate_alpha_list_multi (the library) and                     *)
(* simulator_wqb.run_simulations_and_get_hashes (the batch runner).        *)
(* Tasks are given by the positions of their alphas in the list.           *)
(***************************************************************************)
\* longest list of alphas handed over
MaxAlphaList == 12

\* simulate_alpha_list_multi: len(alpha_list) < 10
MultiThreshold == 10
\* limit_of_concurrent_simulations: 1..8, else 3
MinConcurrent == 1
MaxConcurrent == 8
\* limit_of_multi_simulations: 2..10, else 3
MinMulti == 2
MaxMulti == 10
DefaultLimit == 3

\* mutant: the nearest end of the range instead of 3
ClampConcurrent_Nearest(c) ==
    IF c < MinConcurrent THEN MinConcurrent ELSE IF c > MaxConcurrent THEN MaxConcurrent ELSE c

\* simulate_alpha_list, simulate_alpha_list_multi: the limit of concurrent
\* simulations
ClampConcurrent(c) ==
    IF (c < MinConcurrent) \/ (c > MaxConcurrent) THEN DefaultLimit ELSE c

\* simulate_alpha_list_multi: the limit of multi simulations
ClampMulti(k) ==
    IF (k < MinMulti) \/ (k > MaxMulti) THEN DefaultLimit ELSE k

\* mutant: <= for <
BelowThreshold_Inclusive(n) == n <= MultiThreshold

\* simulate_alpha_list_multi: the list is too short for multi simulations
BelowThreshold(n) == n < MultiThreshold

\* any(d["type"] == "SUPER" for d in alpha_list)
AnySuper(alpha_list) == \E i \in 1..Len(alpha_list) : alpha_list[i].type = "SUPER"

\* mutant: range(0, len(alpha_list) - k + 1, k), the short last task lost
Tasks_WholeOnly(n, k) ==
    [t \in 1..(n \div k) |-> [j \in 1..k |-> (t - 1) * k + j]]

\* [alpha_list[i : i + k] for i in range(0, len(alpha_list), k)]
Tasks(n, k) ==
    [t \in 1..((n + k - 1) \div k) |->
        [j \in 1..(Min(t * k, n) - (t - 1) * k) |-> (t - 1) * k + j]]

\* simulate_alpha_list: one task for each alpha, a ThreadPool of the
\* clamped limit
simulate_alpha_list(alpha_list, limit_of_concurrent_simulations) ==
    [mode |-> "single",
     tasks |-> [i \in 1..Len(alpha_list) |-> <<i>>],
     pool |-> ClampConcurrent(limit_of_concurrent_simulations)]

\* simulate_alpha_list_multi, up to the ThreadPool it starts
\* limit_concurrent, limit_multi: limit_of_concurrent_simulations,
\* limit_of_multi_simulations
simulate_alpha_list_multi(alpha_list, limit_concurrent, limit_multi) ==
    LET multi == ClampMulti(limit_multi)
        concurrent == ClampConcurrent(limit_concurrent)
    IN  IF BelowThreshold(Len(alpha_list))
        THEN simulate_alpha_list(alpha_list, concurrent)
        ELSE IF AnySuper(alpha_list)
        THEN simulate_alpha_list(alpha_list, DefaultLimit)
        ELSE [mode |-> "multi",
              tasks |-> Tasks(Len(alpha_list), multi),
              pool |-> concurrent]

\* run_simulations_and_get_hashes, up to the call of concurrent_simulate, which
\* gets the slots and concurrent_count as they are
run_simulations_and_get_hashes(exprs, concurrent, multi, per_slot) ==
    [mode |-> IF multi THEN "multi" ELSE "single",
     tasks |-> MakeSlots(Len(exprs), multi, per_slot),
     pool |-> concurrent]

\* lists of alphas of one type, or with one SUPER alpha among REGULAR ones
AlphaLists ==
    {[i \in 1..n |-> [type |-> IF i = sp THEN "SUPER" ELSE "REGULAR", regular |-> i]] :
        n \in 0..MaxAlphaList, sp \in 0..MaxAlphaList}

RequestedConcurrency == {MinConcurrent - 1, MinConcurrent, DefaultLimit, MaxConcurrent,
                         MaxConcurrent + 1}

RequestedFanIn == {MinMulti - 1, MinMulti, 5, MaxMulti, MaxMulti + 1}

InitMulti ==
    /\ PoolIdle
    /\ AutoIdle
    /\ BatchIdle
    /\ call \in [path : {"library", "batch"}, alpha_list : AlphaLists, multi : BOOLEAN,
                 concurrent : RequestedConcurrency, per_slot : RequestedFanIn]
    /\ call.path = "library" => call.multi
    \* BatchProcessor.run dispatches only a manifest with pending requests
    /\ call.path = "batch" => call.alpha_list # <<>>
    /\ ret = <<>>
    /\ returned = FALSE

CallLibrary ==
    /\ ~returned
    /\ call.path = "library"
    /\ returned' = TRUE
    /\ ret' = simulate_alpha_list_multi(call.alpha_list, call.concurrent, call.per_slot)
    /\ UNCHANGED <<call, batchVars, poolVars, autoVars>>

CallBatch ==
    /\ ~returned
    /\ call.path = "batch"
    /\ returned' = TRUE
    /\ ret' = run_simulations_and_get_hashes(call.alpha_list, call.concurrent,
                                             call.multi, call.per_slot)
    /\ UNCHANGED <<call, batchVars, poolVars, autoVars>>

NextMulti ==
    \/ CallLibrary
    \/ CallBatch

SpecMulti == InitMulti /\ [][NextMulti]_vars

\* the fan-in the call packs with, when it packs
FanIn == call.per_slot

\* C12: M requests of one type packed in multi mode with fan-in K make
\* ceil(M/K) slots, all of size K except possibly the last, which has
\* M mod K members when that is not zero; the slots in order are the list.
C12_PackingShape ==
    (/\ returned
     /\ ret.mode = "multi"
     /\ ~AnySuper(call.alpha_list)
     /\ call.path = "library" => FanIn \in MinMulti..MaxMulti) =>
        LET M == Len(call.alpha_list)
            n == Len(ret.tasks)
        IN  /\ n * FanIn >= M
            /\ (n - 1) * FanIn < M
            /\ \A t \in 1..(n - 1) : Len(ret.tasks[t]) = FanIn
            /\ n > 0 => Len(ret.tasks[n]) = (IF M % FanIn = 0 THEN FanIn ELSE M % FanIn)
            /\ Flatten(ret.tasks) = [i \in 1..M |-> i]

\* the library packs a list into three tasks, the last one short
C12_Witness ==
    /\ returned
    /\ call.path = "library"
    /\ ret.mode = "multi"
    /\ FanIn \in MinMulti..MaxMulti
    /\ Len(call.alpha_list) % FanIn # 0
    /\ Len(ret.tasks) = 3
    /\ Len(ret.tasks[3]) < FanIn

AllTasksSingle == \A t \in 1..Len(ret.tasks) : Len(ret.tasks[t]) = 1

\* C13: with multi mode requested and a SUPER request among the pending
\* ones, every slot has size 1 and no multi-job is submitted.
C13_SuperNeverPacked ==
    (returned /\ call.multi /\ AnySuper(call.alpha_list)) => AllTasksSingle

\* C14 as stated: with multi mode requested and fewer than 10 requests
\* pending, every slot has size 1 and no multi-job is submitted.
C14_ShortListNeverPacked ==
    (returned /\ call.multi /\ Len(call.alpha_list) < MultiThreshold) => AllTasksSingle

\* C14: the library skips multi mode for fewer than 10 alphas (one task for
\* each alpha) and packs 10 or more alphas of one type; the batch runner
\* packs whenever multi mode is requested, however few requests are pending.
C14_ThresholdInLibraryOnly ==
    LET M == Len(call.alpha_list)
    IN  /\ (returned /\ call.path = "library" /\ M < MultiThreshold) =>
               (ret.mode = "single" /\ AllTasksSingle /\ Len(ret.tasks) = M)
        /\ (returned /\ call.path = "library" /\ M >= MultiThreshold
                /\ ~AnySuper(call.alpha_list)) =>
               (ret.mode = "multi" /\ Len(ret.tasks[1]) = ClampMulti(FanIn))
        /\ (returned /\ call.path = "batch" /\ call.multi) =>
               /\ ret.mode = "multi"
               /\ M > 0 => Len(ret.tasks[1]) = Min(FanIn, M)

\* the library is asked for multi simulations of 9 alphas and makes 9 tasks
C14_Witness ==
    /\ returned
    /\ call.path = "library"
    /\ Len(call.alpha_list) = MultiThreshold - 1
    /\ FanIn \in MinMulti..MaxMulti
    /\ ret.mode = "single"
    /\ Len(ret.tasks) = MultiThreshold - 1

(***************************************************************************)
(* One run of the batch runner in multi mode on a manifest of 12 distinct  *)
(* REGULAR requests, --concurrent 3 --alphas-per-slot 5, with no          *)
(* checkpoint or with 5 of the 12 fingerprints in it.                      *)
(***************************************************************************)
ScenarioManifest ==
    [i \in 1..12 |-> << <<"type", "REGULAR">>, <<"regular", ToString(i)>> >>]

\* the checkpoint file holding the fingerprints of the requests at `done`
CheckpointOf(done) ==
    [j \in 1..Cardinality(done) |-> get_alpha_hash(ScenarioManifest[NthSmallest(done, j)])]

\* no checkpoint, or one with any five of the first seven or of the last
\* seven requests
ScenarioCheckpoints ==
    {<<>>} \cup {CheckpointOf(done) :
                    done \in {d \in (SUBSET (1..7)) \cup (SUBSET (6..12)) : Cardinality(d) = 5}}

InitScenario ==
    /\ PoolIdle
    /\ AutoIdle
    /\ NoCall
    /\ file_paths = <<ScenarioManifest>>
    /\ file_kind = <<"list">>
    /\ checkpoint \in {<<c>> : c \in ScenarioCheckpoints}
    /\ cp_fault = <<NoFault>>
    /\ concurrent_count = 3
    /\ use_multi_sim = TRUE
    /\ alpha_count_per_slot = 5
    /\ run = 1
    /\ pc = "file"
    /\ fi = 1
    /\ completed_hashes = {}
    /\ expressions_to_run = <<>>
    /\ slots = <<>>
    /\ resps = <<>>
    /\ successful_hashes = <<>>
    /\ successful_pos = <<>>
    /\ appended = 0
    /\ results_summary = NoSummary
    /\ stop_file = 0
    /\ stop_pending = <<>>
    /\ stop_completed = {}

\* the run is left alone: no interrupt
NextScenario ==
    \/ LoadFile
    \/ \E k \in 1..Len(resps) : SubmitSlot(k)
    \/ \E k \in 1..Len(resps) : SlotTerminal(k)
    \/ AnalyseResponses
    \/ AppendHash
    \/ AllFilesDone

SpecScenario == InitScenario /\ [][NextScenario]_vars

SlotSizesOf(ss) == [k \in 1..Len(ss) |-> Len(ss[k])]

\* C15: with 5 of the 12 fingerprints in the checkpoint, 7 requests are
\* pending; they are packed in manifest order into two slots of 5 and 2,
\* and these two slots are all that is dispatched.
C15_SevenPendingAsFiveAndTwo ==
    (pc = "dispatch" /\ Cardinality(completed_hashes) = 5) =>
        /\ Len(expressions_to_run) = 7
        /\ expressions_to_run =
               [j \in 1..7 |-> ScenarioManifest[NthSmallest(PendingIndices(1), j)]]
        /\ SlotSizesOf(slots) = <<5, 2>>
        /\ Flatten(slots) = [j \in 1..7 |-> j]
        /\ Len(resps) = 2

\* both slots are in flight, the checkpoint holding five fingerprints that
\* are not the first five of the manifest
C15_Witness ==
    /\ pc = "dispatch"
    /\ Cardinality(completed_hashes) = 5
    /\ get_alpha_hash(ScenarioManifest[1]) \notin completed_hashes
    /\ get_alpha_hash(ScenarioManifest[12]) \in completed_hashes
    /\ resps = <<"inflight", "inflight">>

\* C16: with an empty checkpoint three slots of 5, 5 and 2 are dispatched,
\* and when the three multi-jobs are COMPLETE the checkpoint ends with 12
\* entries and the summary says total 12, successful 12, failed 0.
C16_TwelveOfTwelve ==
    /\ (pc = "dispatch" /\ completed_hashes = {}) => SlotSizesOf(slots) = <<5, 5, 2>>
    /\ (/\ pc = "file"
        /\ fi = 2
        /\ Len(resps) = 3
        /\ \A k \in 1..3 : resps[k] \in {"COMPLETE", "COMPLETE_children"}) =>
           /\ Len(checkpoint[1]) = 12
           /\ results_summary.total_alphas = 12
           /\ results_summary.successful_alphas = 12
           /\ results_summary.failed_alphas = 0

\* C17: the dispatcher runs with the requested concurrency clamped to 1..8:
\* a value in the range as it is, a larger one as 8, a smaller one as 1, on
\* the library path and on the batch runner's; never more than 8 at a time.
C17_ConcurrencyClamped ==
    returned =>
        /\ ret.pool = (IF call.concurrent < MinConcurrent THEN MinConcurrent
                       ELSE IF call.concurrent > MaxConcurrent THEN MaxConcurrent
                       ELSE call.concurrent)
        /\ ret.pool <= MaxConcurrent

-----------------------------------------------------------------------------
\* The self-correlation test of ace_lib: get_self_corr and
\* check_self_corr_test.  Correlations and thresholds are in hundredths.

\* bound: the records of one answer
MaxRecords == 2

\* threshold: float = 0.7
DefaultThreshold == 70

Thresholds == {DefaultThreshold - 20, DefaultThreshold}

\* correlations just below, at and just above each threshold
Correlations == UNION {{t - 1, t, t + 1} : t \in Thresholds}

\* the answer of /alphas/<id>/correlations/self: with or without the key
\* "records", which lists the correlations
CorrAnswers ==
    {[has_records |-> FALSE, records |-> <<>>]} \cup
    {[has_records |-> TRUE, records |-> rs] : rs \in SeqsUpTo(Correlations, MaxRecords)}

\* self_corr_df["correlation"].max()
MaxOf(rs) == CHOOSE x \in Range(rs) : \A y \in Range(rs) : y <= x

\* get_self_corr: the data frame, one row per record; empty when the key is
\* missing or the list is empty
get_self_corr(answer) ==
    IF ~answer.has_records THEN <<>>
    ELSE IF Len(answer.records) = 0 THEN <<>>
    ELSE answer.records

\* mutant: a value at the threshold passes
BelowLimit_Inclusive(value, threshold) == value <= threshold

\* value < threshold
BelowLimit(value, threshold) == value < threshold

check_self_corr_test(answer, threshold) ==
    LET self_corr_df == get_self_corr(answer)
    IN  IF self_corr_df = <<>>
        THEN [test |-> "SELF_CORRELATION", result |-> "PASS", limit |-> threshold,
              value |-> 0]
        ELSE LET value == MaxOf(self_corr_df)
             IN  [test |-> "SELF_CORRELATION",
                  result |-> IF BelowLimit(value, threshold) THEN "PASS" ELSE "FAIL",
                  limit |-> threshold, value |-> value]

InitCorr ==
    /\ PoolIdle
    /\ AutoIdle
    /\ BatchIdle
    /\ call \in [answer : CorrAnswers, threshold : Thresholds]
    /\ ret = <<>>
    /\ returned = FALSE

CheckSelfCorr ==
    /\ ~returned
    /\ returned' = TRUE
    /\ ret' = check_self_corr_test(call.answer, call.threshold)
    /\ UNCHANGED <<call, batchVars, poolVars, autoVars>>

NextCorr == CheckSelfCorr

SpecCorr == InitCorr /\ [][NextCorr]_vars

\* C20: the test passes when the alpha has no self-correlation records,
\* passes when every correlation (so the largest) is strictly below the
\* threshold, and fails otherwise: a largest correlation equal to the
\* threshold fails.
C20_StrictlyBelowPasses ==
    returned =>
        LET rs == call.answer.records
            t == call.threshold
        IN  /\ ret.limit = t
            /\ rs = <<>> => ret.result = "PASS"
            /\ (rs # <<>> /\ \A i \in 1..Len(rs) : rs[i] < t) => ret.result = "PASS"
            /\ (\E i \in 1..Len(rs) : rs[i] >= t) => ret.result = "FAIL"
            /\ ret.result \in {"PASS", "FAIL"}

\* the default threshold, the largest correlation equal to it: FAIL
C20_Witness ==
    /\ returned
    /\ call.threshold = DefaultThreshold
    /\ Len(call.answer.records) = 2
    /\ call.answer.records[1] = DefaultThreshold
    /\ call.answer.records[2] < DefaultThreshold
    /\ ret.result = "FAIL"
    /\ ret.value = DefaultThreshold

-----------------------------------------------------------------------------
\* The production-correlation test of ace_lib: get_prod_corr and
\* check_prod_corr_test.  A record is one bucket of the answer: the upper
\* end of its correlation range and the number of alphas in it.

AlphaCounts == {0, 1}

ProdRecords == [max : Correlations, alphas : AlphaCounts]

ProdAnswers ==
    {[has_records |-> FALSE, records |-> <<>>]} \cup
    {[has_records |-> TRUE, records |-> rs] : rs \in SeqsUpTo(ProdRecords, MaxRecords)}

\* get_prod_corr: the data frame, one row per record; empty when the key is
\* missing, and when the list is empty
get_prod_corr(answer) ==
    IF ~answer.has_records THEN <<>> ELSE answer.records

\* prod_corr_df[prod_corr_df.alphas > 0]["max"]
QualifyingMax(prod_corr_df) ==
    {prod_corr_df[i].max : i \in {j \in 1..Len(prod_corr_df) : prod_corr_df[j].alphas > 0}}

\* Series.max(): <<v>> for the largest value v, <<>> for the NaN pandas gives
\* for an empty series
SeriesMax(S) ==
    IF S = {} THEN <<>> ELSE <<CHOOSE x \in S : \A y \in S : y <= x>>

\* value <= threshold, which is False for NaN
AtMostLimit(value, threshold) ==
    IF value = <<>> THEN FALSE ELSE value[1] <= threshold

check_prod_corr_test(answer, threshold) ==
    LET prod_corr_df == get_prod_corr(answer)
    IN  IF prod_corr_df = <<>>
        THEN [test |-> "PROD_CORRELATION", result |-> "NONE", limit |-> threshold,
              value |-> <<>>]
        ELSE LET value == SeriesMax(QualifyingMax(prod_corr_df))
             IN  [test |-> "PROD_CORRELATION",
                  result |-> IF AtMostLimit(value, threshold) THEN "PASS" ELSE "FAIL",
                  limit |-> threshold, value |-> value]

InitProd ==
    /\ PoolIdle
    /\ AutoIdle
    /\ BatchIdle
    /\ call \in [answer : ProdAnswers, threshold : Thresholds]
    /\ ret = <<>>
    /\ returned = FALSE

CheckProdCorr ==
    /\ ~returned
    /\ returned' = TRUE
    /\ ret' = check_prod_corr_test(call.answer, call.threshold)
    /\ UNCHANGED <<call, batchVars, poolVars, autoVars>>

NextProd == CheckProdCorr

SpecProd == InitProd /\ [][NextProd]_vars

\* C21: the test gives NONE when no record qualifies (no record at all, or
\* none with a nonzero alpha count), PASS when the largest correlation over
\* the records with a nonzero alpha count is at most the threshold, and FAIL
\* otherwise.
C21_NoneWithoutQualifyingRecords ==
    returned =>
        LET rs == call.answer.records
            q == {i \in 1..Len(rs) : rs[i].alphas # 0}
            t == call.threshold
        IN  /\ q = {} => ret.result = "NONE"
            /\ (q # {} /\ \A i \in q : rs[i].max <= t) => ret.result = "PASS"
            /\ (\E i \in q : rs[i].max > t) => ret.result = "FAIL"

-----------------------------------------------------------------------------
\* A run of the batch runner over two manifest files, each of which may be
\* unreadable or hold something else than a list, with checkpoint files that
\* may already have lines and may fail to be read or written.

\* bound: the requests of a manifest in these runs
MaxFileReq == 1

FileInputs ==
    {[kind |-> "list", body |-> b] : b \in SeqsUpTo(ReqUniverse, MaxFileReq)} \cup
    {[kind |-> k, body |-> <<Expr("e2")>>] : k \in {"not_list", "unreadable"}}

CheckpointInputs ==
    [lines : {<<>>} \cup {<<get_alpha_hash(r)>> : r \in ReqUniverse}
                    \cup {<<get_alpha_hash(ExprSwapped("e1")), get_alpha_hash(Expr("e2"))>>},
     fault : {NoFault, [read |-> TRUE, write |-> FALSE], [read |-> FALSE, write |-> TRUE]}]

InitFiles ==
    /\ PoolIdle
    /\ AutoIdle
    /\ NoCall
    /\ \E a, b \in FileInputs, ca, cb \in CheckpointInputs :
          /\ file_paths = <<a.body, b.body>>
          /\ file_kind = <<a.kind, b.kind>>
          /\ checkpoint = <<ca.lines, cb.lines>>
          /\ cp_fault = <<ca.fault, cb.fault>>
    /\ concurrent_count \in ConcurrentCounts
    /\ use_multi_sim = FALSE
    /\ alpha_count_per_slot \in SlotSizes
    /\ run = 1
    /\ pc = "file"
    /\ fi = 1
    /\ completed_hashes = {}
    /\ expressions_to_run = <<>>
    /\ slots = <<>>
    /\ resps = <<>>
    /\ successful_hashes = <<>>
    /\ successful_pos = <<>>
    /\ appended = 0
    /\ results_summary = NoSummary
    /\ stop_file = 0
    /\ stop_pending = <<>>
    /\ stop_completed = {}

\* the run is left alone: no interrupt
NextFiles ==
    \/ LoadFile
    \/ \E k \in 1..Len(resps) : SubmitSlot(k)
    \/ \E k \in 1..Len(resps) : SlotTerminal(k)
    \/ AnalyseResponses
    \/ AppendHash
    \/ AllFilesDone

SpecFiles == InitFiles /\ [][NextFiles]_vars

\* the run is at a manifest that cannot be read or parsed, is not a list,
\* or has every request's fingerprint in the checkpoint set it loads
AtManifestToSkip ==
    /\ pc = "file"
    /\ fi \in 1..Len(file_paths)
    /\ \/ file_kind[fi] \in {"unreadable", "not_list"}
       \/ \A i \in 1..Len(file_paths[fi]) :
              /\ ~cp_fault[fi].read
              /\ \E l \in 1..Len(checkpoint[fi]) :
                     checkpoint[fi][l] = get_alpha_hash(file_paths[fi][i])

\* C22: a manifest that cannot be read or parsed, is not a list, or has
\* nothing pending after the checkpoint filter is skipped: nothing is
\* submitted for it, its checkpoint stays as it is, and the run goes on
\* with the next manifest; the manifests are taken one after the other and
\* the run ends only after the last.
C22_BadManifestSkipped ==
    [][/\ AtManifestToSkip =>
             /\ pc' = "file"
             /\ fi' = fi + 1
             /\ slots' = <<>>
             /\ resps' = <<>>
             /\ checkpoint' = checkpoint
       /\ (pc # "finished" /\ fi' # fi) => (fi' = fi + 1 \/ pc' = "finished")
       /\ (pc # "finished" /\ pc' = "finished") => fi = Len(file_paths) + 1]_vars

\* the second manifest is dispatched after a first one that was not a
\* readable list
C22_Witness ==
    /\ pc = "dispatch"
    /\ fi = 2
    /\ file_kind[1] \in {"unreadable", "not_list"}
    /\ \E k \in 1..Len(resps) : resps[k] = "inflight"

\* C23: a checkpoint file that cannot be read counts as empty, so every
\* request of the manifest is pending and dispatched; an append that fails
\* leaves the run going on, with its summary, to the next manifest.
C23_CheckpointErrorsNotFatal ==
    /\ [](/\ (pc = "dispatch" /\ cp_fault[fi].read) =>
                /\ completed_hashes = {}
                /\ expressions_to_run = file_paths[fi]
                /\ Len(slots) = Len(file_paths[fi])
          /\ (pc = "file" /\ fi \in 1..Len(file_paths) /\ IsManifest(file_kind[fi])
                 /\ cp_fault[fi].read /\ file_paths[fi] # <<>>) => ENABLED LoadFile)
    /\ [][(pc = "append" /\ checkpoint' = checkpoint) =>
             /\ pc' = "file"
             /\ fi' = fi + 1
             /\ results_summary' = results_summary]_vars

\* an append to the first manifest's checkpoint has failed, and the run is
\* at the second manifest, whose checkpoint has lines and cannot be read
C23_Witness ==
    /\ pc = "file"
    /\ fi = 2
    /\ cp_fault[1].write
    /\ successful_hashes # <<>>
    /\ appended < Len(successful_hashes)
    /\ cp_fault[2].read
    /\ checkpoint[2] # <<>>
    /\ IsManifest(file_kind[2])
    /\ file_paths[2] # <<>>

-----------------------------------------------------------------------------
\* autosimulator.main: the simulation worker sends the alphas one at a time
\* (mode single) and rewrites the location file after each; the result
\* worker reads the location file and fetches the results; main joins the
\* two threads.

\* bound: the alphas of the input file
MaxAutoAlphas == 2

InitAuto ==
    /\ PoolIdle
    /\ BatchIdle
    /\ NoCall
    /\ main_pc = "join_sim"
    /\ sim_pc = "top"
    /\ res_pc = "top"
    /\ session_ok = TRUE
    /\ alpha_left \in 0..MaxAutoAlphas
    /\ sim_locations = 0
    /\ location_file = NoFile
    /\ res_locations = 0
    /\ res_i = 0
    /\ results = {}

othersUnchanged == UNCHANGED <<batchVars, poolVars, callVars>>

\* simulation_worker, top of `while alpha_list`: the list is empty, or the
\* session check gives 0: the worker is done; else it goes on to send
SimTop ==
    /\ sim_pc = "top"
    /\ sim_pc' = IF alpha_left = 0 \/ ~session_ok THEN "done" ELSE "send"
    /\ UNCHANGED <<main_pc, res_pc, session_ok, alpha_left, sim_locations,
                   location_file, res_locations, res_i, results>>
    /\ othersUnchanged

\* simulation_worker, `while location is None`: the session check, then
\* start_simulation; with a location the alpha is popped, the master log
\* updated and the location put in `locations`
SimSend ==
    /\ sim_pc = "send"
    /\ IF ~session_ok
       THEN \* return
            /\ sim_pc' = "done"
            /\ UNCHANGED <<alpha_left, sim_locations>>
       ELSE \/ \* no Location header: sleep retry_timeout, send again
               /\ UNCHANGED <<sim_pc, alpha_left, sim_locations>>
            \/ \* start_simulation raises: except, sleep, top of the loop
               /\ sim_pc' = "top"
               /\ UNCHANGED <<alpha_left, sim_locations>>
            \/ \* a location; update_master_log raises: except, sleep, top;
               \* the alpha is popped, its location is not kept
               /\ sim_pc' = "top"
               /\ alpha_left' = alpha_left - 1
               /\ UNCHANGED sim_locations
            \/ \* a location, kept
               /\ sim_pc' = "open"
               /\ alpha_left' = alpha_left - 1
               /\ sim_locations' = sim_locations + 1
    /\ UNCHANGED <<main_pc, res_pc, session_ok, location_file, res_locations,
                   res_i, results>>
    /\ othersUnchanged

\* open(location_path, 'w'): the file is created or truncated to nothing
OpenForWrite(file) == [exists |-> TRUE, whole |-> FALSE, n |-> 0]

\* simulation_worker: with open(location_path, 'w') as f
SimOpen ==
    /\ sim_pc = "open"
    /\ \/ /\ location_file' = OpenForWrite(location_file)
          /\ sim_pc' = "dump"
       \/ \* open raises: except, sleep, top of the loop
          /\ sim_pc' = "top"
          /\ UNCHANGED location_file
    /\ UNCHANGED <<main_pc, res_pc, session_ok, alpha_left, sim_locations,
                   res_locations, res_i, results>>
    /\ othersUnchanged

\* simulation_worker: json.dump(locations, f, indent=2) and the close of
\* the file: the document is in the file
SimDump ==
    /\ sim_pc = "dump"
    /\ location_file' = [exists |-> TRUE, whole |-> TRUE, n |-> sim_locations]
    /\ sim_pc' = "top"
    /\ UNCHANGED <<main_pc, res_pc, session_ok, alpha_left, sim_locations,
                   res_locations, res_i, results>>
    /\ othersUnchanged

\* result_worker, top of `while True`: the session check gives 0: break;
\* no location file: sleep poll_interval; else the file is opened
ResTop ==
    /\ res_pc = "top"
    /\ res_pc' = IF ~session_ok THEN "exited"
                 ELSE IF ~location_file.exists THEN "top"
                 ELSE "read"
    /\ UNCHANGED <<main_pc, sim_pc, session_ok, alpha_left, sim_locations,
                   location_file, res_locations, res_i, results>>
    /\ othersUnchanged

\* result_worker: locations = json.load(f), outside of any try: a file
\* that does not hold a whole document makes json.load raise, and the
\* exception ends the thread
ResRead ==
    /\ res_pc = "read"
    /\ IF location_file.whole
       THEN /\ res_locations' = location_file.n
            /\ res_i' = 1
            /\ res_pc' = "fetch"
       ELSE /\ res_pc' = "crashed"
            /\ UNCHANGED <<res_locations, res_i>>
    /\ UNCHANGED <<main_pc, sim_pc, session_ok, alpha_left, sim_locations,
                   location_file, results>>
    /\ othersUnchanged

\* result_worker: one pass of `for loc_key, loc_val in locations.items()`,
\* and after the last the sleep that ends the pass of `while True`
ResFetch ==
    /\ res_pc = "fetch"
    /\ IF res_i > res_locations
       THEN \* time.sleep(poll_interval)
            /\ res_pc' = "top"
            /\ UNCHANGED <<res_i, results>>
       ELSE IF res_i \in results
       THEN \* continue
            /\ res_i' = res_i + 1
            /\ UNCHANGED <<res_pc, results>>
       ELSE IF ~session_ok
       THEN \* return
            /\ res_pc' = "exited"
            /\ UNCHANGED <<res_i, results>>
       ELSE \/ \* the result (or "No alpha_id found") is recorded and saved
               /\ results' = results \cup {res_i}
               /\ res_i' = res_i + 1
               /\ UNCHANGED res_pc
            \/ \* a request or the write raises: logged, the next key
               /\ res_i' = res_i + 1
               /\ UNCHANGED <<res_pc, results>>
    /\ UNCHANGED <<main_pc, sim_pc, session_ok, alpha_left, sim_locations,
                   location_file, res_locations>>
    /\ othersUnchanged

\* the token runs out, or the requests of the session check start to fail
SessionExpires ==
    /\ main_pc # "returned"
    /\ session_ok
    /\ session_ok' = FALSE
    /\ UNCHANGED <<main_pc, sim_pc, res_pc, alpha_left, sim_locations,
                   location_file, res_locations, res_i, results>>
    /\ othersUnchanged

\* main: sim_thread.join()
JoinSim ==
    /\ main_pc = "join_sim"
    /\ sim_pc = "done"
    /\ main_pc' = "join_res"
    /\ UNCHANGED <<sim_pc, res_pc, session_ok, alpha_left, sim_locations,
                   location_file, res_locations, res_i, results>>
    /\ othersUnchanged

\* main: res_thread.join(); the thread has ended, by return or by an
\* exception
JoinRes ==
    /\ main_pc = "join_res"
    /\ res_pc \in {"exited", "crashed"}
    /\ main_pc' = "returned"
    /\ UNCHANGED <<sim_pc, res_pc, session_ok, alpha_left, sim_locations,
                   location_file, res_locations, res_i, results>>
    /\ othersUnchanged

SimStep == SimTop \/ SimSend \/ SimOpen \/ SimDump
ResStep == ResTop \/ ResRead \/ ResFetch
MainStep == JoinSim \/ JoinRes

NextAuto ==
    \/ SimTop
    \/ SimSend
    \/ SimOpen
    \/ SimDump
    \/ ResTop
    \/ ResRead
    \/ ResFetch
    \/ SessionExpires
    \/ JoinSim
    \/ JoinRes

SpecAuto == InitAuto /\ [][NextAuto]_vars

\* the threads and main are scheduled; nothing makes the session expire
SpecAutoFair ==
    SpecAuto /\ WF_vars(SimStep) /\ WF_vars(ResStep) /\ WF_vars(MainStep)

\* a result is recorded for every location the simulation worker saved
AllRecorded == results = 1..sim_locations

\* C29: once the simulation worker has finished and a result is recorded
\* for every saved location (there being one at least), the result worker
\* leaves its loop and main returns.
C29_ResultWorkerStops ==
    (sim_pc = "done" /\ sim_locations > 0 /\ AllRecorded) ~> (main_pc = "returned")

\* C30: whatever the interleaving of the rewrite and the read, the result
\* worker only sees a whole location file: no read makes it fail or stop.
C30_ReadSeesWholeFile ==
    res_pc # "crashed"

====
